---- MODULE Spec2Model ----
(***************************************************************************)
(* The frame loop of opal-rs (src/main.rs): a winit event loop whose       *)
(* closure handles CloseRequested, Resized and RedrawEventsCleared, and    *)
(* keeps a vulkano swapchain, its framebuffers, the dynamic viewport, the  *)
(* flag recreate_swapchain and the future previous_frame_end.              *)
(*                                                                         *)
(* Every handler is one action.  The results of the calls into the         *)
(* graphics runtime (recreate_with_dimensions, acquire_next_image, the     *)
(* command buffer builder, then_execute, then_signal_fence_and_flush) are  *)
(* inputs of the RedrawEventsCleared action, drawn from the result sets    *)
(* below.  The window's inner size belongs to the windowing system and     *)
(* changes by the action WindowResize, which also queues a Resized event.  *)
(***************************************************************************)
EXTENDS Integers, Sequences, FiniteSets, TLC

\* ---------------------------------------------------------------- bounds
\* Window widths range over 1..MaxDim; the height stays 1.
MaxDim == 2
\* A swapchain holds between 1 and MaxImages images.
MaxImages == 2
\* Swapchain identities are reused modulo NumSwapchainIds.
NumSwapchainIds == 2
\* At most MaxPending Resized events wait in the event queue.
MaxPending == 1

Dimensions == {<<w, 1>> : w \in 1..MaxDim}
ImageCounts == 1..MaxImages
SwapchainIds == 1..NumSwapchainIds

\* Results of the calls whose errors the handler matches on.
RecreateResults == {"Ok", "UnsupportedDimensions", "Error"}
AcquireResults == {"Ok", "Suboptimal", "OutOfDate", "Error"}
FlushResults == {"Ok", "OutOfDate", "Error"}

VARIABLES
    window_size,          \* surface.window().inner_size()
    pending_resized,      \* Resized events queued, not yet handled
    vk_swapchain,         \* [id, dimensions, num_images]
    framebuffers,         \* sequence of framebuffers, one per image
    viewport,             \* dynamic_state.viewports: dimensions of the viewport
    recreate_swapchain,   \* the flag
    previous_frame_end,   \* "None", "now" or "frame"
    control_flow,         \* "Poll" or "Exit"
    panicked,             \* the process has unwound out of the event loop
    \* history of the last handlings, read by the properties only
    ops,                  \* calls made by the last RedrawEventsCleared handling
    error,                \* the unexpected error of that handling ("none" if none)
    recreate_result,      \* result of recreate_with_dimensions in that handling
    acquire_result,       \* result of acquire_next_image in that handling
    flush_result,         \* result of then_signal_fence_and_flush in that handling
    flag_at_start,        \* recreate_swapchain when that handling began
    flag_at_acquire,      \* recreate_swapchain when acquire_next_image was called
    acquired,             \* [swapchain, image] acquired in that handling, or NoImage
    presented,            \* [swapchain, image] presented in that handling, or NoImage
    rendered,             \* the framebuffer that handling rendered into, or NoFramebuffer
    resized_run,          \* Resized events handled since the last redraw: "none",
                          \* "one", "many"; "redrawn_after_many" once a redraw
                          \* has followed several of them
    resized_since_create  \* the window changed size since vk_swapchain was created

prog_vars == <<vk_swapchain, framebuffers, viewport, recreate_swapchain,
               previous_frame_end, control_flow, panicked>>
env_vars == <<window_size, pending_resized>>
redraw_hist == <<ops, error, recreate_result, acquire_result, flush_result,
                 flag_at_start, flag_at_acquire, acquired, presented, rendered>>
vars == <<window_size, pending_resized, vk_swapchain, framebuffers, viewport,
          recreate_swapchain, previous_frame_end, control_flow, panicked,
          ops, error, recreate_result, acquire_result, flush_result,
          flag_at_start, flag_at_acquire, acquired, presented, rendered,
          resized_run, resized_since_create>>

NoImage == [swapchain |-> 0, image |-> 0 - 1]
NoFramebuffer == [swapchain |-> 0, index |-> 0 - 1, dimensions |-> <<0, 0>>]

\* ------------------------------------------------------- pure helpers

\* The images a swapchain owns: image i of swapchain sc, with sc's dimensions.
SwapchainImages(sc) ==
    [i \in 1..sc.num_images |->
        [swapchain |-> sc.id, index |-> i - 1, dimensions |-> sc.dimensions]]

\* Swapchain::new / recreate_with_dimensions on success: a new swapchain with
\* exactly the dimensions asked for and n images.
NewSwapchain(id, dims, n) ==
    [id |-> id, dimensions |-> dims, num_images |-> n]

NextSwapchainId(id) == (id % NumSwapchainIds) + 1

\* window_size_dependent_setup: the viewport takes the dimensions of images[0]
\* and one framebuffer is built per image, in order.
window_size_dependent_setup(images) ==
    [viewport |-> images[1].dimensions,
     framebuffers |-> [i \in 1..Len(images) |-> images[i]]]

\* ------------------------------------------- the handler, stage by stage
\* A handling works on a record h of the closure's captured variables, the
\* locals that outlive a stage, and what the handling did so far.

\* The closure's state when an event arrives.
HandlerState ==
    [vk_swapchain |-> vk_swapchain, framebuffers |-> framebuffers,
     viewport |-> viewport, recreate_swapchain |-> recreate_swapchain,
     previous_frame_end |-> previous_frame_end,
     panicked |-> FALSE, returned |-> FALSE, image_num |-> 0 - 1,
     ops |-> <<>>, error |-> "none", flag_at_acquire |-> "none",
     acquired |-> NoImage, presented |-> NoImage, rendered |-> NoFramebuffer]

\* panic!/unwrap on Err or None: the process unwinds, nothing runs after it.
Panic(h, what) == [h EXCEPT !.panicked = TRUE, !.returned = TRUE, !.error = what]

\* `return` from the closure.
Return(h) == [h EXCEPT !.returned = TRUE]

\* The handling calls into the runtime.
Call(h, name) == [h EXCEPT !.ops = Append(@, name)]

\* previous_frame_end.as_mut().unwrap().cleanup_finished()
CleanupFinished(h) ==
    IF h.previous_frame_end = "None"
    THEN Panic(h, "unwrap_none")
    ELSE Call(h, "cleanup_finished")

\* A recreation that keeps the old framebuffers next to the new swapchain.
SwapKeepsFramebuffers(c, new, setup_ok) ==
    LET setup == window_size_dependent_setup(SwapchainImages(new))
        c2 == [Call(c, "window_size_dependent_setup")
                  EXCEPT !.vk_swapchain = new, !.viewport = setup.viewport]
    IN  IF ~setup_ok
        THEN Panic(c2, "setup")
        ELSE [c2 EXCEPT !.recreate_swapchain = FALSE]

\* A recreation that leaves recreate_swapchain set.
SwapKeepsFlag(c, new, setup_ok) ==
    LET setup == window_size_dependent_setup(SwapchainImages(new))
        c2 == [Call(c, "window_size_dependent_setup")
                  EXCEPT !.vk_swapchain = new, !.viewport = setup.viewport]
    IN  IF ~setup_ok
        THEN Panic(c2, "setup")
        ELSE [c2 EXCEPT !.framebuffers = setup.framebuffers]

\* After Ok(r): vk_swapchain = new_swapchain; the viewport and the
\* framebuffers are rebuilt by window_size_dependent_setup(&new_images) (the
\* viewport first, then the framebuffers, whose construction is unwrapped);
\* recreate_swapchain = false.
SwapAndSetup(c, new, setup_ok) ==
    LET setup == window_size_dependent_setup(SwapchainImages(new))
        c2 == [Call(c, "window_size_dependent_setup")
                  EXCEPT !.vk_swapchain = new, !.viewport = setup.viewport]
    IN  IF ~setup_ok
        THEN Panic(c2, "setup")
        ELSE [c2 EXCEPT !.framebuffers = setup.framebuffers,
                        !.recreate_swapchain = FALSE]

\* A match whose UnsupportedDimensions arm clears the flag before returning.
RecreateMatchDropsRequest(h, dims, res, n, setup_ok) ==
    LET c == Call(h, "recreate_with_dimensions")
    IN  CASE res = "UnsupportedDimensions" ->
               Return([c EXCEPT !.recreate_swapchain = FALSE])
          [] res = "Error" -> Panic(c, "recreate")
          [] OTHER ->
               SwapAndSetup(c, NewSwapchain(NextSwapchainId(h.vk_swapchain.id),
                                            dims, n), setup_ok)

\* The match on recreate_with_dimensions(dimensions): Ok(r) => r,
\* Err(UnsupportedDimensions) => return, Err(e) => panic!.
RecreateMatch(h, dims, res, n, setup_ok) ==
    LET c == Call(h, "recreate_with_dimensions")
    IN  CASE res = "UnsupportedDimensions" -> Return(c)
          [] res = "Error" -> Panic(c, "recreate")
          [] OTHER ->
               SwapAndSetup(c, NewSwapchain(NextSwapchainId(h.vk_swapchain.id),
                                            dims, n), setup_ok)

\* if recreate_swapchain { ... }
RecreateSwapchain(h, dims, res, n, setup_ok) ==
    IF h.returned \/ ~h.recreate_swapchain
    THEN h
    ELSE RecreateMatch(h, dims, res, n, setup_ok)

\* A match whose OutOfDate arm returns without setting the flag.
AcquireMatchForgetsFlag(h, res, img) ==
    CASE res = "OutOfDate" -> Return(h)
      [] res = "Error" -> Panic(h, "acquire")
      [] OTHER ->
           [h EXCEPT !.image_num = img,
                     !.acquired = [swapchain |-> h.vk_swapchain.id, image |-> img],
                     !.recreate_swapchain = IF res = "Suboptimal" THEN TRUE ELSE @]

\* A match that takes every acquire error for an out-of-date swapchain.
AcquireMatchAnyError(h, res, img) ==
    CASE res = "OutOfDate" -> Return([h EXCEPT !.recreate_swapchain = TRUE])
      [] res = "Error" ->
           Return([h EXCEPT !.recreate_swapchain = TRUE, !.error = "acquire"])
      [] OTHER ->
           [h EXCEPT !.image_num = img,
                     !.acquired = [swapchain |-> h.vk_swapchain.id, image |-> img],
                     !.recreate_swapchain = IF res = "Suboptimal" THEN TRUE ELSE @]

\* A match that skips the frame when the acquisition is suboptimal.
AcquireMatchSkipsSuboptimal(h, res, img) ==
    CASE res \in {"OutOfDate", "Suboptimal"} ->
               Return([h EXCEPT !.recreate_swapchain = TRUE])
      [] res = "Error" -> Panic(h, "acquire")
      [] OTHER ->
           [h EXCEPT !.image_num = img,
                     !.acquired = [swapchain |-> h.vk_swapchain.id, image |-> img]]

\* The match on acquire_next_image and `if suboptimal`.
AcquireMatch(h, res, img) ==
    CASE res = "OutOfDate" -> Return([h EXCEPT !.recreate_swapchain = TRUE])
      [] res = "Error" -> Panic(h, "acquire")
      [] OTHER ->
           [h EXCEPT !.image_num = img,
                     !.acquired = [swapchain |-> h.vk_swapchain.id, image |-> img],
                     !.recreate_swapchain = IF res = "Suboptimal" THEN TRUE ELSE @]

\* swapchain::acquire_next_image(vk_swapchain.clone(), None)
AcquireNextImage(h, res, img) ==
    IF h.returned
    THEN h
    ELSE AcquireMatch(
             [Call(h, "acquire_next_image")
                 EXCEPT !.flag_at_acquire =
                            IF h.recreate_swapchain THEN "true" ELSE "false"],
             res, img)

\* The command buffer: begin_render_pass(framebuffers[image_num]), draw,
\* end_render_pass, build; each unwrapped.
RecordCommands(h, record_ok) ==
    IF h.returned
    THEN h
    ELSE LET c == Call(h, "record")
         IN  IF h.image_num + 1 > Len(h.framebuffers)
             THEN Panic(c, "framebuffer_index")
             ELSE IF ~record_ok
                  THEN Panic(c, "record")
                  ELSE [c EXCEPT !.rendered = h.framebuffers[h.image_num + 1]]

\* A match whose last arm prints the error and stores no future.
FlushMatchStoresNothing(h, flush) ==
    CASE flush = "Ok" -> [h EXCEPT !.previous_frame_end = "frame"]
      [] flush = "OutOfDate" ->
           [h EXCEPT !.recreate_swapchain = TRUE, !.previous_frame_end = "now"]
      [] OTHER -> [h EXCEPT !.error = "flush"]

\* The match on the result of then_signal_fence_and_flush.
FlushMatch(h, flush) ==
    CASE flush = "Ok" -> [h EXCEPT !.previous_frame_end = "frame"]
      [] flush = "OutOfDate" ->
           [h EXCEPT !.recreate_swapchain = TRUE, !.previous_frame_end = "now"]
      [] OTHER ->
           [h EXCEPT !.error = "flush", !.previous_frame_end = "now"]

\* A present of the swapchain's first image, whatever was acquired.
PresentedFirstImage(h) == [swapchain |-> h.vk_swapchain.id, image |-> 0]

\* The image handed to then_swapchain_present.
PresentedImage(h) == [swapchain |-> h.vk_swapchain.id, image |-> h.image_num]

\* previous_frame_end.take().unwrap().join(acquire_future)
\*     .then_execute(..).unwrap().then_swapchain_present(..)
\*     .then_signal_fence_and_flush()
SubmitAndPresent(h, exec_ok, flush) ==
    IF h.returned
    THEN h
    ELSE IF h.previous_frame_end = "None"
         THEN Panic(Call(h, "take"), "unwrap_none")
         ELSE LET t == [Call(Call(Call(h, "take"), "join"), "then_execute")
                           EXCEPT !.previous_frame_end = "None"]
              IN  IF ~exec_ok
                  THEN Panic(t, "execute")
                  ELSE FlushMatch(
                           [Call(Call(t, "then_swapchain_present"),
                                 "then_signal_fence_and_flush")
                               EXCEPT !.presented = PresentedImage(h)],
                           flush)

\* A Resized handler that flips the flag.
ResizedHandlerToggles(h) == [h EXCEPT !.recreate_swapchain = ~@]

\* Event::WindowEvent { event: WindowEvent::Resized(_), .. }
ResizedHandler(h) == [h EXCEPT !.recreate_swapchain = TRUE]

\* A recreation with the dimensions of the swapchain it replaces.
swapchain_size == vk_swapchain.dimensions

\* surface.window().inner_size() as read by the recreation.
inner_size == window_size

\* ------------------------------------------------------------- the state

\* The state when event_loop.run is entered: the swapchain was created with
\* the window's inner size, the framebuffers and the viewport were built from
\* its images, the flag is false and previous_frame_end holds sync::now.
Init ==
    /\ window_size \in Dimensions
    /\ pending_resized = 0
    /\ \E n \in ImageCounts :
         LET sc == NewSwapchain(1, window_size, n)
             setup == window_size_dependent_setup(SwapchainImages(sc))
         IN  /\ vk_swapchain = sc
             /\ framebuffers = setup.framebuffers
             /\ viewport = setup.viewport
    /\ recreate_swapchain = FALSE
    /\ previous_frame_end = "now"
    /\ control_flow = "Poll"
    /\ panicked = FALSE
    /\ ops = <<>>
    /\ error = "none"
    /\ recreate_result = "none"
    /\ acquire_result = "none"
    /\ flush_result = "none"
    /\ flag_at_start = FALSE
    /\ flag_at_acquire = "none"
    /\ acquired = NoImage
    /\ presented = NoImage
    /\ rendered = NoFramebuffer
    /\ resized_run = "none"
    /\ resized_since_create = FALSE

\* The closure is still being called: no panic, and ControlFlow::Exit not set.
Running == ~panicked /\ control_flow = "Poll"

\* The windowing system resizes the window and queues a Resized event.
WindowResize ==
    /\ Running
    /\ pending_resized < MaxPending
    /\ \E d \in Dimensions :
         /\ window_size' = d
         /\ resized_since_create' = (resized_since_create \/ d # window_size)
    /\ pending_resized' = pending_resized + 1
    /\ UNCHANGED <<prog_vars, redraw_hist, resized_run>>

\* WindowEvent::CloseRequested
CloseRequested ==
    /\ Running
    /\ control_flow' = "Exit"
    /\ UNCHANGED <<env_vars, vk_swapchain, framebuffers, viewport,
                   recreate_swapchain, previous_frame_end, panicked,
                   redraw_hist, resized_run, resized_since_create>>

\* WindowEvent::Resized(_)
Resized ==
    /\ Running
    /\ pending_resized > 0
    /\ pending_resized' = pending_resized - 1
    /\ LET h == ResizedHandler(HandlerState)
       IN  /\ vk_swapchain' = h.vk_swapchain
           /\ framebuffers' = h.framebuffers
           /\ viewport' = h.viewport
           /\ recreate_swapchain' = h.recreate_swapchain
           /\ previous_frame_end' = h.previous_frame_end
           /\ panicked' = h.panicked
    /\ resized_run' = IF resized_run \in {"none", "redrawn_after_many"}
                      THEN "one" ELSE "many"
    /\ UNCHANGED <<window_size, control_flow, redraw_hist, resized_since_create>>

\* Any other event: `_ => ()`
OtherEvent ==
    /\ Running
    /\ UNCHANGED vars

\* The end of a RedrawEventsCleared handling that left the closure's state h.
Commit(h) ==
    /\ vk_swapchain' = h.vk_swapchain
    /\ framebuffers' = h.framebuffers
    /\ viewport' = h.viewport
    /\ recreate_swapchain' = h.recreate_swapchain
    /\ previous_frame_end' = h.previous_frame_end
    /\ panicked' = h.panicked
    /\ ops' = h.ops
    /\ error' = h.error
    /\ flag_at_acquire' = h.flag_at_acquire
    /\ acquired' = h.acquired
    /\ presented' = h.presented
    /\ rendered' = h.rendered
    /\ flag_at_start' = recreate_swapchain
    /\ resized_run' = IF resized_run = "many" THEN "redrawn_after_many" ELSE "none"
    /\ resized_since_create' =
           IF recreate_result' = "Ok" THEN FALSE ELSE resized_since_create
    /\ UNCHANGED <<env_vars, control_flow>>

\* What the recreation stage settles for good: no later stage of the handling
\* touches the swapchain, the framebuffers or the viewport.
CommitRecreation(h) ==
    /\ vk_swapchain' = h.vk_swapchain
    /\ framebuffers' = h.framebuffers
    /\ viewport' = h.viewport

\* Event::RedrawEventsCleared, with the recreation's result drawn from recs
\* and the success of window_size_dependent_setup from setups.  The results
\* drawn are recorded as the handling goes; a result that is not consulted is
\* not drawn.  Each stage's outcome is bound as a value (\E over a singleton)
\* before the next stage reads it; a stage that returned or panicked ends the
\* handling.
Redraw(recs, setups) ==
    /\ Running
    /\ \E h0 \in {CleanupFinished(HandlerState)} :
       IF h0.returned
       THEN /\ recreate_result' = "none"
            /\ acquire_result' = "none"
            /\ flush_result' = "none"
            /\ Commit(h0)
       ELSE
       \E rec \in (IF recreate_swapchain THEN recs ELSE {"none"}) :
       /\ recreate_result' = rec
       /\ \E n \in (IF rec = "Ok" THEN ImageCounts ELSE {1}),
             setup_ok \in (IF rec = "Ok" THEN setups ELSE {TRUE}) :
          \E h1 \in {RecreateSwapchain(h0, inner_size, rec, n, setup_ok)} :
          /\ CommitRecreation(h1)
          /\ IF h1.returned
             THEN /\ acquire_result' = "none"
                  /\ flush_result' = "none"
                  /\ Commit(h1)
             ELSE
             \E acq \in AcquireResults :
             /\ acquire_result' = acq
             /\ \E img \in (IF acq \in {"Ok", "Suboptimal"}
                            THEN 0..(h1.vk_swapchain.num_images - 1) ELSE {0}) :
                \E h2 \in {AcquireNextImage(h1, acq, img)} :
                IF h2.returned
                THEN /\ flush_result' = "none"
                     /\ Commit(h2)
                ELSE
                \E record_ok \in BOOLEAN :
                \E h3 \in {RecordCommands(h2, record_ok)} :
                IF h3.returned
                THEN /\ flush_result' = "none"
                     /\ Commit(h3)
                ELSE
                \E exec_ok \in BOOLEAN :
                \E flush \in (IF exec_ok THEN FlushResults ELSE {"none"}) :
                /\ flush_result' = flush
                /\ \E h4 \in {SubmitAndPresent(h3, exec_ok, flush)} : Commit(h4)

RedrawEventsCleared == Redraw(RecreateResults, BOOLEAN)

Next ==
    \/ WindowResize
    \/ CloseRequested
    \/ Resized
    \/ OtherEvent
    \/ RedrawEventsCleared

Spec == Init /\ [][Next]_vars

\* A pending recreation whose recreate_with_dimensions and setup succeed.
RecreationSucceeds ==
    /\ recreate_swapchain
    /\ pending_resized' = pending_resized
    /\ control_flow' = control_flow
    /\ recreate_result' = "Ok"
    /\ Redraw({"Ok"}, {TRUE})

\* RedrawEventsCleared keeps occurring and recreate_with_dimensions does not
\* fail forever; a queued Resized event is delivered.
LiveSpec == Spec /\ WF_vars(RecreationSucceeds) /\ WF_vars(Resized)

\* ------------------------------------------------------------ properties

Positions(name) == {i \in DOMAIN ops : ops[i] = name}
Called(name) == Positions(name) # {}

\* The calls of a handling that draws a frame, in the order of the source.
FrameOrder ==
    <<"acquire_next_image", "record", "take", "join", "then_execute",
      "then_swapchain_present", "then_signal_fence_and_flush">>

IsFrameOp(o) == \E i \in DOMAIN FrameOrder : FrameOrder[i] = o
FrameOps == SelectSeq(ops, IsFrameOp)
IsPrefix(a, b) == Len(a) <= Len(b) /\ \A i \in DOMAIN a : a[i] = b[i]

\* The last handling acquired an image.
AcquireSucceeded == acquire_result \in {"Ok", "Suboptimal"}
\* The last handling went through to the flush: it drew a frame.
FrameDrawn == flush_result # "none"
\* The last handling ended on one of the two early returns.
EarlyReturn ==
    recreate_result = "UnsupportedDimensions" \/ acquire_result = "OutOfDate"
\* The last handling recorded, submitted or presented nothing.
NothingDrawn ==
    \A o \in {"record", "take", "join", "then_execute",
              "then_swapchain_present", "then_signal_fence_and_flush"} : ~Called(o)
\* The last handling called recreate_with_dimensions right after
\* cleanup_finished, before any acquire_next_image.
RecreatedFirst ==
    /\ Len(ops) >= 2
    /\ ops[2] = "recreate_with_dimensions"
    /\ \A i \in Positions("acquire_next_image") : i > 2

\* A step of the Resized handler: it takes one Resized event off the queue.
ResizedStep == pending_resized' = pending_resized - 1
\* A step of the RedrawEventsCleared handler that changes the state: the only
\* steps that leave the event queue and control_flow alone.
RedrawStep == pending_resized' = pending_resized /\ control_flow' = control_flow

\* C1: in a handling that draws a frame the calls are acquire_next_image,
\* the recording of the command buffer, take/join/then_execute,
\* then_swapchain_present, then_signal_fence_and_flush, in that order; a
\* handling that stops earlier made a prefix of them; nothing is submitted or
\* presented unless the acquisition succeeded; and the image presented is the
\* one acquired in the same handling, on the swapchain it was acquired from.
C1_FrameOrder ==
    /\ IsPrefix(FrameOps, FrameOrder)
    /\ FrameDrawn => FrameOps = FrameOrder
    /\ ~AcquireSucceeded =>
           ~Called("then_execute") /\ ~Called("then_swapchain_present")
    /\ Called("then_swapchain_present") =>
           /\ acquired # NoImage
           /\ presented = acquired
           /\ presented.swapchain = vk_swapchain.id

\* A frame was drawn on an image other than the first.
C1_Witness == flush_result = "Ok" /\ acquired.image > 0 /\ presented = acquired

\* C2: after UnsupportedDimensions or an out-of-date acquisition the process
\* has not aborted, the handling recorded, submitted and presented nothing,
\* recreate_swapchain is true, and (UnsupportedDimensions) no image was
\* acquired; a handling that begins with recreate_swapchain true calls
\* recreate_with_dimensions before any acquire_next_image.
C2_TransientRebuild ==
    /\ EarlyReturn => ~panicked /\ NothingDrawn /\ recreate_swapchain
    /\ recreate_result = "UnsupportedDimensions" => ~Called("acquire_next_image")
    /\ flag_at_start => RecreatedFirst

\* A handling began with the flag set, recreated the swapchain and then met an
\* out-of-date acquisition.
C2_Witness ==
    flag_at_start /\ recreate_result = "Ok" /\ acquire_result = "OutOfDate"

\* C3 as stated: after any unexpected error the process has aborted.
C3_Original == error # "none" => panicked

\* C3 amended: an unexpected error of the recreation, of the setup of the
\* framebuffers, of the acquisition, of the recording or of then_execute
\* aborts the process, and after an abort no event is handled; an error of the
\* flush is printed, a fresh future is stored and the loop goes on.
C3_Amended ==
    /\ [](error \notin {"none", "flush"} => panicked)
    /\ [](error = "flush" => ~panicked /\ previous_frame_end = "now")
    /\ [][panicked => UNCHANGED vars]_vars

\* The process aborted on a failed then_execute.
C3_Witness == panicked /\ error = "execute" /\ Called("then_execute")

\* C4 as stated: a handling that draws a frame leaves a swapchain whose
\* dimensions are the window's inner size.
C4_Original ==
    [][RedrawStep /\ flush_result' # "none"
          => vk_swapchain'.dimensions = window_size']_vars

\* C4 amended: the swapchain has the inner size read when it was created, so
\* it has the window's current inner size unless the window was resized since;
\* the viewport and every framebuffer have the swapchain's dimensions.
C4_Amended ==
    /\ ~resized_since_create => vk_swapchain.dimensions = window_size
    /\ viewport = vk_swapchain.dimensions
    /\ ~panicked =>
           \A i \in DOMAIN framebuffers :
               framebuffers[i].dimensions = vk_swapchain.dimensions

\* A frame was drawn by the handling that recreated the swapchain after the
\* window had taken a size other than the initial swapchain's.
C4_Witness ==
    /\ flag_at_start /\ recreate_result = "Ok" /\ flush_result = "Ok"
    /\ ~resized_since_create
    /\ resized_run = "none"
    /\ vk_swapchain.id = 2
    /\ vk_swapchain.dimensions = <<MaxDim, 1>>
    /\ rendered.dimensions = <<MaxDim, 1>>

\* C5: while the event loop runs, framebuffers holds one framebuffer per image
\* of the current swapchain, built from that swapchain's images in order; the
\* acquired index is always a valid index, and the framebuffer rendered into
\* is the one of the acquired image.
C5_FramebuffersMatchImages ==
    /\ ~panicked =>
           /\ Len(framebuffers) = vk_swapchain.num_images
           /\ \A i \in DOMAIN framebuffers :
                  /\ framebuffers[i].swapchain = vk_swapchain.id
                  /\ framebuffers[i].index = i - 1
    /\ error # "framebuffer_index"
    /\ acquired # NoImage => acquired.image < Len(framebuffers)
    /\ rendered # NoFramebuffer =>
           /\ rendered.swapchain = acquired.swapchain
           /\ rendered.index = acquired.image

\* The last framebuffer of a recreated swapchain was rendered into.
C5_Witness ==
    /\ ~panicked
    /\ vk_swapchain.id = 2
    /\ rendered.swapchain = 2
    /\ rendered.index = MaxImages - 1

\* C6: the Resized handler sets recreate_swapchain and changes nothing else
\* of the program (no call is made, nothing is drawn); a handling of
\* RedrawEventsCleared calls recreate_with_dimensions at most once, however
\* many Resized events preceded it, and does so first when the flag is set.
C6_ResizedOnlySetsFlag ==
    /\ [][ResizedStep =>
             /\ recreate_swapchain'
             /\ UNCHANGED <<vk_swapchain, framebuffers, viewport,
                            previous_frame_end, control_flow, panicked,
                            redraw_hist>>]_vars
    /\ [](Cardinality(Positions("recreate_with_dimensions")) <= 1)
    /\ [](resized_run = "redrawn_after_many" /\ ops # <<>> => RecreatedFirst)

\* Several Resized events, then one redraw with one successful recreation.
C6_Witness ==
    /\ resized_run = "redrawn_after_many"
    /\ recreate_result = "Ok"
    /\ Cardinality(Positions("recreate_with_dimensions")) = 1

\* C7: after a suboptimal acquisition recreate_swapchain is true and, unless
\* the recording or then_execute aborted the process, the frame was recorded,
\* submitted and presented on the acquired image of the swapchain still in
\* place; the handling that follows begins with the flag set and so calls
\* recreate_with_dimensions before it acquires.
C7_SuboptimalStillDraws ==
    /\ acquire_result = "Suboptimal" =>
           /\ recreate_swapchain
           /\ panicked => error \in {"record", "execute"}
           /\ ~panicked =>
                  /\ FrameOps = FrameOrder
                  /\ presented = acquired
                  /\ acquired.swapchain = vk_swapchain.id
                  /\ rendered = framebuffers[acquired.image + 1]
    /\ flag_at_start /\ AcquireSucceeded => RecreatedFirst

\* A suboptimal frame was drawn and flushed.
C7_Witness ==
    /\ acquire_result = "Suboptimal"
    /\ flush_result = "Ok"
    /\ ~flag_at_start
    /\ recreate_swapchain

\* C8: recreate_swapchain is false at every call of acquire_next_image; a
\* handling whose recreation met UnsupportedDimensions acquired nothing and
\* left the flag set.
C8_NoAcquireWhileFlagged ==
    /\ flag_at_acquire # "true"
    /\ Called("acquire_next_image") <=> flag_at_acquire = "false"
    /\ recreate_result = "UnsupportedDimensions" =>
           recreate_swapchain /\ flag_at_acquire = "none"

\* A handling began with the flag set and acquired an image after the
\* recreation had cleared it.
C8_Witness == flag_at_start /\ flag_at_acquire = "false" /\ AcquireSucceeded

\* C9: unless the process aborted, previous_frame_end holds a future; no
\* unwrap of it ever failed; the early returns come before the take; and the
\* flush leaves the frame's future on success, a fresh one on either error.
C9_FutureAlwaysPresent ==
    /\ ~panicked => previous_frame_end # "None"
    /\ error # "unwrap_none"
    /\ EarlyReturn => ~Called("take")
    /\ flush_result = "Ok" => previous_frame_end = "frame"
    /\ flush_result \in {"OutOfDate", "Error"} => previous_frame_end = "now"

\* A flush failed with an error other than OutOfDate and the loop went on.
C9_Witness ==
    flush_result = "Error" /\ previous_frame_end = "now" /\ ~panicked

\* C10 as stated: once recreate_swapchain is set and the last handling drew
\* nothing, a frame is eventually drawn (or the loop has ended).
C10_Original ==
    (recreate_swapchain /\ ~FrameDrawn) ~> (FrameDrawn \/ ~Running)

\* C10 amended: recreate_swapchain goes from true to false only in a handling
\* whose recreation succeeded; a handling whose recreation and setup succeeded
\* went on to acquire an image; and a set flag leads to the replacement of the
\* swapchain (or to the end of the loop).
C10_Amended ==
    /\ [][recreate_swapchain /\ ~recreate_swapchain'
             => RedrawStep /\ recreate_result' = "Ok"
                /\ vk_swapchain'.id # vk_swapchain.id]_vars
    /\ [](recreate_result = "Ok" /\ error # "setup" => Called("acquire_next_image"))
    /\ \A id \in SwapchainIds :
           (recreate_swapchain /\ vk_swapchain.id = id)
               ~> (vk_swapchain.id # id \/ ~Running)

\* A handling began with the flag set, recreated the swapchain, drew a frame
\* and left the flag clear.
C10_Witness ==
    /\ flag_at_start
    /\ recreate_result = "Ok"
    /\ flush_result = "Ok"
    /\ ~recreate_swapchain

====
